---- MODULE Spec2Model ----
(***************************************************************************)
(* A model of vnpy_xtp's gateway (src/vnpy_xtp/gateway/xtp_gateway.py):    *)
(* the trading-side order cache of XtpTdApi with its order-update and      *)
(* trade-fill callbacks, and the market-data session of XtpMdApi with its  *)
(* reconnect, resubscription and tick filter.                              *)
(*                                                                         *)
(* Three specifications share the definitions below:                       *)
(*   SpecTd    the trading session and the order cache;                    *)
(*   SpecMd    the market-data session: connect, subscribe, disconnect,    *)
(*             backoff, login and resubscription;                          *)
(*   SpecTick  the tick filter of onDepthMarketData over a logged-in       *)
(*             market-data session.                                        *)
(***************************************************************************)
EXTENDS Integers, Sequences, FiniteSets, TLC

VARIABLES
    \* ---- XtpTdApi
    orders,             \* self.orders: order id -> OrderData, or NoOrder
    td_connect_status,  \* XtpTdApi.connect_status
    td_login_status,    \* XtpTdApi.login_status
    margin_trading,     \* XtpTdApi.margin_trading
    td_params,          \* the connection parameters stored by XtpTdApi.connect
    td_used,            \* vendor side: the parameters of the last login call of the trading session
    filled,             \* broker side: fill volume already delivered as trade events, per order id
    fill_marks,         \* broker side: the cumulative fill levels reported or delivered so far, per order id
    tdOut,              \* what the last trading-side handler did (calls it made, whether it raised)
    short_positions,    \* XtpTdApi.short_positions: symbol -> PositionData, or NoPosition
    debt_open,          \* broker side: a debt query is outstanding (its last page has not been sent)
    debt_pages,         \* broker side: pages delivered since short_positions was last cleared
    debt_sum,           \* broker side: per symbol, the short debt on the pages of the outstanding query
    posOut,             \* what the last onQueryCreditDebtInfo call did
    \* ---- XtpMdApi
    md_connect_status,  \* XtpMdApi.connect_status
    md_login_status,    \* XtpMdApi.login_status
    md_params,          \* the connection parameters stored by connect (server, user, protocol, local ip)
    subscribe_request_list, \* XtpMdApi.subscribe_request_list: set of (symbol, exchange)
    subscribe_all,      \* XtpMdApi.subscribe_all
    re_connect_times,   \* XtpMdApi.re_connect_times
    last_tick_time,     \* XtpMdApi.last_tick_time: vt_symbol -> time, NoTime when absent
    sys_config,         \* the row re_auto_login_xtp of sys_config_repository
    md_pc,              \* where the thread running onDisconnected / login_server / re_subscribe stands
    md_runner,          \* which thread that is: "cb" (the SDK's callback thread) or "host"
    iter_todo,          \* re_subscribe: the entries the running for-loop has not visited yet
    iter_used,          \* re_subscribe: the set's size when the running for-loop started
    cycle,              \* the resubscription cycle in progress or last run
    mdOut,              \* what the last market-data disconnect handling did
    md_login_out,       \* what the last run of XtpMdApi.login_server did
    subOut,             \* what the last call of subscribe or subscribe_all_tickets did
    emit_time,          \* host side: the time of the last tick on_tick received, per vt_symbol
    tickOut,            \* what the last onDepthMarketData call did
    \* ---- XtpGateway
    count,              \* XtpGateway.count
    query_functions,    \* XtpGateway.query_functions, a list of method names
    timer_registered,   \* event engine: process_timer_event is registered for EVENT_TIMER
    timerOut,           \* what the last call of init_query or process_timer_event did
    \* ---- calls of XtpTdApi in progress on their threads
    sending,            \* send_order between insertOrder's return and the store into self.orders
    ev_run,             \* onOrderEvent in progress on an existing record: its event and position
    tr_run              \* onTradeEvent in progress on an existing record: its fill and position

tdVars == <<orders, td_connect_status, td_login_status, margin_trading, td_params, td_used,
           filled, fill_marks, tdOut>>
mdSessVars == <<md_connect_status, md_login_status, md_params, subscribe_request_list,
                subscribe_all, re_connect_times, sys_config, md_pc, md_runner,
                iter_todo, iter_used, cycle, mdOut, md_login_out, subOut>>
tickVars == <<last_tick_time, emit_time, tickOut>>
debtVars == <<short_positions, debt_open, debt_pages, debt_sum, posOut>>
\* What the handlers of XtpTdApi, of XtpMdApi's session and of the tick filter
\* leave alone
timerVars == <<count, query_functions, timer_registered, timerOut>>
threadVars == <<sending, ev_run, tr_run>>
outsideTd == <<mdSessVars, tickVars, timerVars, threadVars>>
outsideMd == <<tdVars, debtVars, tickVars, timerVars, threadVars>>
outsideTick == <<tdVars, debtVars, mdSessVars, timerVars, threadVars>>
vars == <<tdVars, debtVars, mdSessVars, tickVars, timerVars, threadVars>>

-----------------------------------------------------------------------------
(* Bounds *)

\* The requested volume of order 1 (order 2 asks for one unit).
MaxVolume == 3
\* Tick timestamps are 1..MaxTime.
MaxTime == 2
\* The reconnect counter is counted up to this value.
MaxReconnect == 2
\* The remaining quantity on a page of a debt query is 1..MaxRemain.
MaxRemain == 2
\* Pages of debt queries accumulated before a last page arrives.
MaxPages == 2

-----------------------------------------------------------------------------
(* Mapping tables *)

NoOrder == [absent |-> TRUE]
NoTime == 0

\* MARKET_XTP2VT
MARKET_XTP2VT(m) == CASE m = 1 -> "SZSE" [] m = 2 -> "SSE"

\* EXCHANGE_XTP2VT
EXCHANGE_XTP2VT(e) == CASE e = 1 -> "SSE" [] e = 2 -> "SZSE"

\* EXCHANGE_VT2XTP.get(exchange, "")
EXCHANGE_VT2XTP(x) == CASE x = "SSE" -> 1 [] x = "SZSE" -> 2 [] OTHER -> 0

\* DIRECTION_STOCK_XTP2VT
DIRECTION_STOCK_XTP2VT(side) ==
    CASE side = 1  -> <<"LONG", "NONE">>
      [] side = 2  -> <<"SHORT", "NONE">>
      [] side = 21 -> <<"LONG", "OPEN">>
      [] side = 22 -> <<"SHORT", "OPEN">>
      [] side = 24 -> <<"LONG", "CLOSE">>
      [] side = 23 -> <<"SHORT", "CLOSE">>

\* DIRECTION_OPTION_XTP2VT
DIRECTION_OPTION_XTP2VT(side) == CASE side = 1 -> "LONG" [] side = 2 -> "SHORT"

\* OFFSET_XTP2VT
OFFSET_XTP2VT(p) ==
    CASE p = 0 -> "NONE" [] p = 1 -> "OPEN" [] p = 2 -> "CLOSE"
      [] p = 4 -> "CLOSETODAY" [] p = 5 -> "CLOSEYESTERDAY"

\* OPTION_ORDERTYPE_XTP2VT.get(price_type, OrderType.MARKET)
OPTION_ORDERTYPE_XTP2VT(t) ==
    CASE t = 1 -> "LIMIT" [] t = 2 -> "MARKET" [] t = 8 -> "FOK" [] OTHER -> "MARKET"

\* EQUITY_ORDERTYPE_XTP2VT.get(price_type, OrderType.MARKET)
EQUITY_ORDERTYPE_XTP2VT(t) == CASE t = 1 -> "LIMIT" [] t = 4 -> "MARKET" [] OTHER -> "MARKET"

\* STAR_ORDERTYPE_XTP2VT.get(price_type, OrderType.MARKET)
STAR_ORDERTYPE_XTP2VT(t) == CASE t = 1 -> "LIMIT" [] t = 7 -> "MARKET" [] OTHER -> "MARKET"

\* STATUS_XTP2VT
STATUS_XTP2VT(s) ==
    CASE s = 0 -> "SUBMITTING"
      [] s = 1 -> "ALLTRADED"
      [] s = 2 -> "PARTTRADED"
      [] s = 3 -> "CANCELLED"
      [] s = 4 -> "NOTTRADED"
      [] s = 5 -> "CANCELLED"
      [] s = 6 -> "REJECTED"
      [] s = 7 -> "SUBMITTING"

XtpStatusCodes == 0..7

\* len(symbol) and symbol.startswith("688") for the tickers of the model
SymbolLen(symbol) == IF symbol = "10004001" THEN 8 ELSE 6
StartsWith688(symbol) == symbol = "688001"

-----------------------------------------------------------------------------
(* The host's connection settings *)

\* The settings the host passes to connect: the server address and the
\* quote protocol
ParamSets == {[endpoint |-> 1, protocol |-> "TCP"], [endpoint |-> 2, protocol |-> "UDP"]}
NoParams == [endpoint |-> 0, protocol |-> "none"]

-----------------------------------------------------------------------------
(* The broker's side of the trading session *)

OrderIds == {1, 2}

\* The order the broker holds under each order id: every event of that id
\* carries these fields.  Order 1 is an equity order, order 2 an option order.
BrokerOrder(oid) ==
    IF oid = 1
    THEN [ticker |-> "600000", market |-> 2, side |-> 1, position_effect |-> 0,
          price_type |-> 1, price |-> 10, quantity |-> MaxVolume]
    ELSE [ticker |-> "10004001", market |-> 2, side |-> 2, position_effect |-> 1,
          price_type |-> 2, price |-> 5, quantity |-> 1]

\* What the broker reports in an order update: the status code agrees with
\* the traded quantity it reports.
BrokerConsistent(code, q, quantity) ==
    CASE code = 1 -> q = quantity
      [] code = 2 -> 0 < q /\ q < quantity
      [] code = 3 -> 0 < q /\ q < quantity
      [] OTHER    -> q = 0

InsertTimes == {1}

\* The broker fills an order in steps and reports each step once as a trade
\* event; an order update reports the cumulative fill after one of the steps,
\* and may arrive before or after the trade events of the steps it counts.
\* An order update may report level q when q is a level already known or one
\* the delivered trade events have not reached yet.
BrokerMayReport(oid, q) == q \in fill_marks[oid] \/ q > filled[oid]

\* The next trade event may carry volume v when it does not step over a
\* level that an order update has already reported.
BrokerMayFill(oid, v) ==
    /\ filled[oid] + v <= BrokerOrder(oid).quantity
    /\ \A m \in fill_marks[oid] : ~(filled[oid] < m /\ m < filled[oid] + v)

-----------------------------------------------------------------------------
(* XtpTdApi: the order cache *)

\* What a trading-side handler did, as the host and the vendor API see it.
TdOutcome(op, oid) ==
    [op |-> op, oid |-> oid,
     nOrder |-> 0,        \* gateway.on_order calls
     nTrade |-> 0,        \* gateway.on_trade calls
     nRefresh |-> 0,      \* queryAsset calls issued by query_account
     nCredit |-> 0,       \* queryCreditFundInfo calls issued by query_credit_asset
     nInsert |-> 0,       \* insertOrder calls
     nCancel |-> 0,       \* cancelOrder calls
     nLogin |-> 0,        \* login calls
     nBootstrap |-> 0,    \* init_contract_data calls
     loginParams |-> NoParams, \* the parameters passed to login
     nLog |-> 0,          \* gateway.write_log / write_error calls
     qty |-> 0,           \* onOrderEvent: data["qty_traded"]
     status |-> "",       \* onOrderEvent: STATUS_XTP2VT[data["order_status"]]
     replay |-> FALSE,    \* onOrderEvent: the handler run before this one was given the same event
     insert_time |-> NoTime, \* onOrderEvent: data["insert_time"]
     raised |-> FALSE,    \* the handler ended by raising an exception
     ret |-> 0]           \* send_order: the order id returned, 0 for ""

\* query_account: a queryAsset call unless the session is not connected
query_account == IF td_connect_status THEN 1 ELSE 0

\* query_credit_asset: a queryCreditFundInfo call unless the session is not connected
query_credit_asset == IF td_connect_status THEN 1 ELSE 0

\* onOrderEvent, the decoding of direction, offset and order type
DecodeOrderEvent(data) ==
    IF SymbolLen(data.ticker) = 8
    THEN [direction |-> DIRECTION_OPTION_XTP2VT(data.side),
          offset |-> OFFSET_XTP2VT(data.position_effect),
          type |-> OPTION_ORDERTYPE_XTP2VT(data.price_type)]
    ELSE [direction |-> DIRECTION_STOCK_XTP2VT(data.side)[1],
          offset |-> DIRECTION_STOCK_XTP2VT(data.side)[2],
          type |-> IF StartsWith688(data.ticker)
                   THEN STAR_ORDERTYPE_XTP2VT(data.price_type)
                   ELSE EQUITY_ORDERTYPE_XTP2VT(data.price_type)]

\* onOrderEvent, the order id is not in self.orders: a new OrderData
OrderFromEvent(data) ==
    [symbol |-> data.ticker,
     exchange |-> MARKET_XTP2VT(data.market),
     type |-> DecodeOrderEvent(data).type,
     direction |-> DecodeOrderEvent(data).direction,
     offset |-> DecodeOrderEvent(data).offset,
     price |-> data.price,
     volume |-> data.quantity,
     traded |-> data.qty_traded,
     status |-> STATUS_XTP2VT(data.order_status),
     datetime |-> NoTime]

\* OrderUpdateMerge with the reported quantity added to traded
OrderUpdateMerge_Adds(order, data) ==
    [order EXCEPT !.traded = @ + data.qty_traded,
                  !.status = STATUS_XTP2VT(data.order_status)]

\* onOrderEvent, the order id is in self.orders: traded and status are set
OrderUpdateMerge(order, data) ==
    [order EXCEPT !.traded = data.qty_traded,
                  !.status = STATUS_XTP2VT(data.order_status)]

\* SetDatetime without the test: every event's insert_time is stored
SetDatetime_Always(order, data) == [order EXCEPT !.datetime = data.insert_time]

\* onOrderEvent: "if not order.datetime: order.datetime = dt"
SetDatetime(order, data) ==
    IF order.datetime = NoTime
    THEN [order EXCEPT !.datetime = data.insert_time]
    ELSE order

\* onTradeEvent, the order id is in self.orders: traded grows by the fill,
\* the status is recomputed
TradeMerge(order, volume) ==
    LET traded == order.traded + volume
    IN  [order EXCEPT !.traded = traded,
                      !.status = IF traded < order.volume THEN "PARTTRADED"
                                                           ELSE "ALLTRADED"]

\* onTradeEvent: "if order.status in [Status.PARTTRADED, Status.ALLTRADED]"
RefreshOnFill(order) == order.status \in {"PARTTRADED", "ALLTRADED"}

\* The events the broker sends for an order id, with an insert_time of times
OrderEventsAt(oid, times) ==
    {[ticker |-> BrokerOrder(oid).ticker, market |-> BrokerOrder(oid).market,
      side |-> BrokerOrder(oid).side, position_effect |-> BrokerOrder(oid).position_effect,
      price_type |-> BrokerOrder(oid).price_type, price |-> BrokerOrder(oid).price,
      quantity |-> BrokerOrder(oid).quantity, order_xtp_id |-> oid,
      qty_traded |-> q, order_status |-> code, insert_time |-> t] :
        q \in 0..BrokerOrder(oid).quantity, code \in XtpStatusCodes, t \in times}

\* The events the broker sends for an order id
OrderEvents(oid) == OrderEventsAt(oid, InsertTimes)

onOrderEvent(data, error_id) ==
    LET orderid == data.order_xtp_id
        known == orders[orderid] # NoOrder
        order == SetDatetime(IF known THEN OrderUpdateMerge(orders[orderid], data)
                                      ELSE OrderFromEvent(data), data)
    IN  /\ td_login_status
        /\ BrokerConsistent(data.order_status, data.qty_traded, data.quantity)
        /\ BrokerMayReport(orderid, data.qty_traded)
        /\ fill_marks' = [fill_marks EXCEPT ![orderid] = @ \cup {data.qty_traded}]
        /\ orders' = [orders EXCEPT ![orderid] = order]
        /\ tdOut' = [TdOutcome("onOrderEvent", orderid) EXCEPT
                        !.nOrder = 1,
                        !.qty = data.qty_traded,
                        !.status = STATUS_XTP2VT(data.order_status),
                        !.insert_time = data.insert_time,
                        !.replay = ( /\ tdOut.op = "onOrderEvent"
                                     /\ tdOut.oid = orderid
                                     /\ tdOut.qty = data.qty_traded
                                     /\ tdOut.status = STATUS_XTP2VT(data.order_status) ),
                        !.nLog = IF error_id # 0 THEN 2 ELSE 0]
        /\ UNCHANGED <<td_connect_status, td_login_status, margin_trading, filled>>
        /\ UNCHANGED <<td_params, td_used, debtVars, outsideTd>>

onTradeEvent(orderid, volume) ==
    LET known == orders[orderid] # NoOrder
        order == TradeMerge(orders[orderid], volume)
        refresh == RefreshOnFill(order)
    IN  /\ td_login_status
        /\ BrokerMayFill(orderid, volume)
        /\ filled' = [filled EXCEPT ![orderid] = @ + volume]
        /\ fill_marks' = [fill_marks EXCEPT ![orderid] = @ \cup {filled[orderid] + volume}]
        /\ IF known
           THEN /\ orders' = [orders EXCEPT ![orderid] = order]
                /\ tdOut' = [TdOutcome("onTradeEvent", orderid) EXCEPT
                                !.nOrder = 1,
                                !.nTrade = 1,
                                !.nRefresh = IF refresh THEN query_account ELSE 0,
                                !.nCredit = IF refresh THEN query_credit_asset ELSE 0]
           ELSE \* the log line, on_trade(trade), then "order" is read unbound
                /\ orders' = orders
                /\ tdOut' = [TdOutcome("onTradeEvent", orderid) EXCEPT
                                !.nLog = 1,
                                !.nTrade = 1,
                                !.raised = TRUE]
        /\ UNCHANGED <<td_connect_status, td_login_status, margin_trading>>
        /\ UNCHANGED <<td_params, td_used, debtVars, outsideTd>>

\* onCancelOrderError marking the order of a failed cancel as rejected
onCancelOrderError_Marks(orderid, error_id) ==
    /\ td_login_status
    /\ tdOut' = [TdOutcome("onCancelOrderError", orderid) EXCEPT
                    !.nLog = IF error_id # 0 THEN 1 ELSE 0]
    /\ orders' = IF error_id # 0 /\ orders[orderid] # NoOrder
                 THEN [orders EXCEPT ![orderid].status = "REJECTED"]
                 ELSE orders
    /\ UNCHANGED <<td_connect_status, td_login_status, margin_trading, filled, fill_marks>>
    /\ UNCHANGED <<td_params, td_used, debtVars, outsideTd>>

\* XtpTdApi.onCancelOrderError: the error is reported unless it is empty
onCancelOrderError(orderid, error_id) ==
    /\ td_login_status
    /\ tdOut' = [TdOutcome("onCancelOrderError", orderid) EXCEPT
                    !.nLog = IF error_id # 0 THEN 1 ELSE 0]
    /\ UNCHANGED <<orders, td_connect_status, td_login_status, margin_trading, filled, fill_marks>>
    /\ UNCHANGED <<td_params, td_used, debtVars, outsideTd>>

\* XtpTdApi.cancel_order: the vendor's cancelOrder is called
cancel_order(orderid) ==
    /\ tdOut' = [TdOutcome("cancel_order", orderid) EXCEPT !.nCancel = 1]
    /\ UNCHANGED <<orders, td_connect_status, td_login_status, margin_trading, filled, fill_marks>>
    /\ UNCHANGED <<td_params, td_used, debtVars, outsideTd>>

\* onQueryAsset: account_type 1 marks a margin account
onQueryAsset(account_type) ==
    /\ td_login_status
    /\ margin_trading' = (margin_trading \/ account_type = 1)
    /\ tdOut' = TdOutcome("onQueryAsset", 0)
    /\ UNCHANGED <<orders, td_connect_status, td_login_status, filled, fill_marks>>
    /\ UNCHANGED <<td_params, td_used, debtVars, outsideTd>>

\* The order request that the broker books under order id oid
ReqOf(oid) ==
    LET d == BrokerOrder(oid)
        dec == DecodeOrderEvent(d)
    IN  [symbol |-> d.ticker, exchange |-> MARKET_XTP2VT(d.market), type |-> dec.type,
         direction |-> dec.direction, offset |-> dec.offset, price |-> d.price,
         volume |-> d.quantity]

\* The requests the host makes: the one above, and the same on an exchange
\* or with an order type that XTP does not take
Requests(oid) ==
    {ReqOf(oid),
     [ReqOf(oid) EXCEPT !.exchange = "CFFEX"],
     [ReqOf(oid) EXCEPT !.type = "STOP"]}

\* The same, and a fill-or-kill request: taken for an option, not for a share
HostRequests(oid) == Requests(oid) \cup {[ReqOf(oid) EXCEPT !.type = "FOK"]}

\* SendOrderRejected without the check of the offset on a margin account
SendOrderRejected_NoMargin(req) ==
    \/ req.exchange \notin {"SZSE", "SSE"}
    \/ IF SymbolLen(req.symbol) = 8
       THEN req.type \notin {"LIMIT", "MARKET", "FOK"}
       ELSE req.type \notin {"LIMIT", "MARKET"}

\* send_order: the checks that return "" before any vendor call
SendOrderRejected(req) ==
    \/ req.exchange \notin {"SZSE", "SSE"}
    \/ margin_trading /\ req.offset = "NONE"
    \/ IF SymbolLen(req.symbol) = 8
       THEN req.type \notin {"LIMIT", "MARKET", "FOK"}
       ELSE req.type \notin {"LIMIT", "MARKET"}

\* OrderRequest.create_order_data
CreateOrderData(req) ==
    [symbol |-> req.symbol, exchange |-> req.exchange, type |-> req.type,
     direction |-> req.direction, offset |-> req.offset, price |-> req.price,
     volume |-> req.volume, traded |-> 0, status |-> "SUBMITTING", datetime |-> NoTime]

\* send_order; orderid is the id insertOrder returns, one the broker has not
\* reported yet
send_order(req, orderid) ==
    /\ td_login_status
    /\ orders[orderid] = NoOrder
    /\ IF SendOrderRejected(req)
       THEN /\ orders' = orders
            /\ tdOut' = [TdOutcome("send_order", 0) EXCEPT !.nLog = 1]
       ELSE /\ orders' = [orders EXCEPT ![orderid] = CreateOrderData(req)]
            /\ tdOut' = [TdOutcome("send_order", orderid) EXCEPT
                            !.nInsert = 1, !.nOrder = 1, !.ret = orderid]
    /\ UNCHANGED <<td_connect_status, td_login_status, margin_trading, filled, fill_marks>>
    /\ UNCHANGED <<td_params, td_used, debtVars, outsideTd>>

\* No callback is in progress
NoRun == [pc |-> "idle"]

\* No send_order call is between its insertOrder and its store
NoSend == [orderid |-> 0]

\* send_order up to the return of insertOrder: the checks, then the vendor
\* call, which books the order under a new id and returns the id
SendOrderInsert(req, orderid) ==
    /\ td_login_status
    /\ sending = NoSend
    /\ orders[orderid] = NoOrder /\ filled[orderid] = 0 /\ fill_marks[orderid] = {0}
    /\ IF SendOrderRejected(req)
       THEN /\ tdOut' = [TdOutcome("send_order", 0) EXCEPT !.nLog = 1]
            /\ UNCHANGED sending
       ELSE /\ tdOut' = [TdOutcome("insertOrder", orderid) EXCEPT !.nInsert = 1]
            /\ sending' = [orderid |-> orderid, req |-> req]
    /\ UNCHANGED <<orders, td_connect_status, td_login_status, margin_trading, filled,
                   fill_marks, td_params, td_used, ev_run, tr_run>>
    /\ UNCHANGED <<debtVars, mdSessVars, tickVars, timerVars>>

\* send_order from the return of insertOrder: "self.orders[orderid] = order",
\* gateway.on_order, return
SendOrderStore ==
    /\ sending # NoSend
    /\ orders' = [orders EXCEPT ![sending.orderid] = CreateOrderData(sending.req)]
    /\ tdOut' = [TdOutcome("send_order", sending.orderid) EXCEPT
                    !.nOrder = 1, !.ret = sending.orderid]
    /\ sending' = NoSend
    /\ UNCHANGED <<td_connect_status, td_login_status, margin_trading, filled,
                   fill_marks, td_params, td_used, ev_run, tr_run>>
    /\ UNCHANGED <<debtVars, mdSessVars, tickVars, timerVars>>

LoginResults == {0, 1}

\* A login_server that would set the connected flag alone
TdLoginServer_ConnectOnly(n) ==
    /\ td_connect_status' = (IF n # 0 THEN TRUE ELSE td_connect_status)
    /\ td_login_status' = td_login_status

\* XtpTdApi.login_server: login returns a session number, 0 on failure
TdLoginServer(n) ==
    /\ td_connect_status' = (IF n # 0 THEN TRUE ELSE td_connect_status)
    /\ td_login_status' = (IF n # 0 THEN TRUE ELSE td_login_status)

\* XtpTdApi.connect: the parameters are stored, the protocol is always TCP
TdStored(params) == [endpoint |-> params.endpoint, protocol |-> "TCP"]

\* XtpTdApi.connect: what it does to the trading session
TdConnectCall(params, n) ==
    /\ td_params' = TdStored(params)
    /\ IF ~td_connect_status
       THEN /\ TdLoginServer(n)
            /\ td_used' = TdStored(params)
            /\ tdOut' = [TdOutcome("connect", 0) EXCEPT !.nLogin = 1,
                                                         !.nBootstrap = IF n # 0 THEN 1 ELSE 0,
                                                         !.loginParams = TdStored(params),
                                                         !.nLog = 1]
       ELSE /\ UNCHANGED <<td_connect_status, td_login_status, td_used>>
            /\ tdOut' = [TdOutcome("connect", 0) EXCEPT !.nLog = 1]
    /\ UNCHANGED <<orders, margin_trading, filled, fill_marks>>

\* XtpTdApi.connect
TdConnect(params, n) == TdConnectCall(params, n) /\ UNCHANGED <<debtVars, outsideTd>>

\* XtpTdApi.onDisconnected: the flags drop, then login_server
TdOnDisconnected(n) ==
    /\ td_connect_status
    /\ td_connect_status' = (n # 0)
    /\ td_login_status' = (n # 0)
    /\ tdOut' = [TdOutcome("onDisconnected", 0) EXCEPT !.nLogin = 1,
                                                        !.nBootstrap = IF n # 0 THEN 1 ELSE 0,
                                                        !.loginParams = td_params,
                                                        !.nLog = 2]
    /\ td_used' = td_params
    /\ debt_open' = FALSE   \* the pages the broker had not sent yet are lost with the session
    /\ UNCHANGED <<orders, margin_trading, td_params, filled, fill_marks>>
    /\ UNCHANGED <<short_positions, debt_pages, debt_sum, posOut, outsideTd>>

-----------------------------------------------------------------------------
(* XtpTdApi: the debt query and the short-position accumulator *)

\* The tickers with short debt, and the market code the broker sends for each
DebtSymbols == {"000001", "600000"}
DebtMarket(symbol) == IF symbol = "000001" THEN 1 ELSE 2

NoPosition == [absent |-> TRUE]
NoPositions == [s \in DebtSymbols |-> NoPosition]
NoDebt == [s \in DebtSymbols |-> 0]

\* The data of one page: debt_type 1 is short debt, 0 is financing debt
DebtPages ==
    {[ticker |-> s, market |-> DebtMarket(s), debt_type |-> t, remain_qty |-> q] :
        s \in DebtSymbols, t \in {0, 1}, q \in 1..MaxRemain}

\* onQueryCreditDebtInfo, "if data["debt_type"] == 1": the position of the
\* symbol is looked up or created with volume 0, and remain_qty is added
Accumulate(positions, data) ==
    IF data.debt_type = 1
    THEN LET position == IF positions[data.ticker] = NoPosition
                         THEN [symbol |-> data.ticker,
                               exchange |-> MARKET_XTP2VT(data.market),
                               direction |-> "SHORT",
                               volume |-> 0]
                         ELSE positions[data.ticker]
         IN  [positions EXCEPT ![data.ticker] =
                                    [position EXCEPT !.volume = @ + data.remain_qty]]
    ELSE positions

\* onQueryCreditDebtInfo, "if last": on_position for every value of the dict
Published(positions) ==
    {positions[s] : s \in {t \in DebtSymbols : positions[t] # NoPosition}}

NoPosOut == [op |-> "none", last |-> FALSE, published |-> {}, sums |-> NoDebt]

\* XtpTdApi.query_credit_debt; the broker takes one debt query at a time
query_credit_debt ==
    /\ ~debt_open
    /\ IF td_connect_status
       THEN debt_open' = TRUE /\ debt_sum' = NoDebt
       ELSE UNCHANGED <<debt_open, debt_sum>>
    /\ UNCHANGED <<short_positions, debt_pages, posOut>>
    /\ UNCHANGED <<tdVars, outsideTd>>

\* XtpTdApi.onQueryCreditDebtInfo, one page of the outstanding query
onQueryCreditDebtInfo(data, last) ==
    LET acc == Accumulate(short_positions, data)
        sums == [debt_sum EXCEPT ![data.ticker] =
                    @ + (IF data.debt_type = 1 THEN data.remain_qty ELSE 0)]
    IN  /\ td_login_status
        /\ debt_open
        /\ last \/ debt_pages < MaxPages
        /\ debt_sum' = sums
        /\ IF last
           THEN /\ posOut' = [op |-> "onQueryCreditDebtInfo", last |-> TRUE,
                              published |-> Published(acc), sums |-> sums]
                /\ short_positions' = NoPositions
                /\ debt_open' = FALSE
                /\ debt_pages' = 0
           ELSE /\ posOut' = [op |-> "onQueryCreditDebtInfo", last |-> FALSE,
                              published |-> {}, sums |-> sums]
                /\ short_positions' = acc
                /\ debt_pages' = debt_pages + 1
                /\ UNCHANGED debt_open
        /\ UNCHANGED <<tdVars, outsideTd>>

InitDebt ==
    /\ short_positions = NoPositions
    /\ debt_open = FALSE
    /\ debt_pages = 0
    /\ debt_sum = NoDebt
    /\ posOut = NoPosOut

NextDebt ==
    \/ \E n \in LoginResults : TdConnect(CHOOSE p \in ParamSets : p.endpoint = 1, n)
    \/ \E n \in LoginResults : TdOnDisconnected(n)
    \/ query_credit_debt
    \/ \E data \in DebtPages : \E last \in BOOLEAN : onQueryCreditDebtInfo(data, last)

InitTd ==
    /\ orders = [o \in OrderIds |-> NoOrder]
    /\ td_connect_status = FALSE
    /\ td_login_status = FALSE
    /\ margin_trading = FALSE
    /\ td_params = NoParams
    /\ td_used = NoParams
    /\ filled = [o \in OrderIds |-> 0]
    /\ fill_marks = [o \in OrderIds |-> {0}]
    /\ tdOut = TdOutcome("init", 0)
    /\ sending = NoSend
    /\ ev_run = NoRun
    /\ tr_run = NoRun

NextTd ==
    \/ \E n \in LoginResults : TdConnect(CHOOSE p \in ParamSets : p.endpoint = 1, n)
    \/ \E o \in OrderIds : \E req \in Requests(o) : send_order(req, o)
    \/ \E o \in OrderIds : \E data \in OrderEvents(o) : \E e \in {0, 1} : onOrderEvent(data, e)
    \/ \E o \in OrderIds : \E v \in 1..BrokerOrder(o).quantity : onTradeEvent(o, v)

-----------------------------------------------------------------------------
(* XtpMdApi: the market-data session *)

\* sleep(3) in onDisconnected
SleepSeconds == 3

\* The (symbol, exchange) pairs the host asks for.  000001 is listed on both
\* exchanges (the SSE index and the SZSE share).
SubKeys == {<<"000001", "SZSE">>, <<"000001", "SSE">>, <<"600000", "SSE">>}

\* The values of the row re_auto_login_xtp; "unset" when get_config_value
\* returns None
ConfigValues == {"unset", "Y", "y", "N"}

\* str.lower()
Lower(v) == CASE v = "Y" -> "y" [] v = "N" -> "n" [] OTHER -> v

\* ReconnectBlocked with the comparison turned round ("==" for "!=")
ReconnectBlocked_Inverted(reg, config) ==
    /\ Cardinality(reg) > 0
    /\ config # "unset"
    /\ Lower("Y") = Lower(config)

\* onDisconnected: "if len(self.subscribe_request_list) > 0" the policy row is
\* read, and the handler returns when it is set and is not Y, letter case aside
ReconnectBlocked(reg, config) ==
    /\ Cardinality(reg) > 0
    /\ config # "unset"
    /\ Lower("Y") # Lower(config)

\* re_subscribe: the early returns
ReSubscribeSkips(reg, login) == reg = {} \/ ~login

NoCycle == [state |-> "none", reg |-> {}, unsub |-> {}, sub |-> {}, early |-> FALSE]
\* What the handling of the last disconnect did
NoMdOut == [op |-> "none",            \* "blocked", "backoff" (asleep) or "done"
            reg |-> {},               \* the registry when the session dropped
            switch |-> "unset",       \* re_auto_login_xtp when the session dropped
            params0 |-> NoParams,     \* the parameters stored when the session dropped
            counter0 |-> 0,           \* re_connect_times when the session dropped
            slept |-> 0,              \* seconds slept before the login
            nLogin |-> 0,             \* login calls made
            loginParams |-> NoParams, \* the parameters passed to login
            loginOk |-> FALSE]

\* login_server with "if n:" in place of "if not n:"
LoginSucceeded_Truthy(n) == n # 0

\* login_server: "if not n:", login returns 0 on success
LoginSucceeded(n) == n = 0

\* What a run of login_server did
NoLoginOut == [ok |-> FALSE,         \* the success branch ran
               nLog |-> 0,           \* gateway.write_log calls
               failed |-> FALSE,     \* the message logged is the failure with the API's error
               nQueryContract |-> 0, \* query_contract calls
               nInit |-> 0,          \* init calls
               nReSubscribe |-> 0]   \* re_subscribe calls

\* login_server after login returned n: on success the flags are set,
\* query_contract and init run, and re_subscribe starts its first loop; the
\* message is logged either way
MdLoginServer(n, runner) ==
    IF LoginSucceeded(n)
    THEN /\ md_connect_status' = TRUE
         /\ md_login_status' = TRUE
         /\ md_login_out' = [NoLoginOut EXCEPT !.ok = TRUE, !.nLog = 1, !.nQueryContract = 1,
                                               !.nInit = 1, !.nReSubscribe = 1]
         /\ IF ReSubscribeSkips(subscribe_request_list, TRUE)
            THEN /\ md_pc' = "idle"
                 /\ UNCHANGED <<md_runner, iter_todo, iter_used, cycle>>
            ELSE /\ md_pc' = "unsub"
                 /\ md_runner' = runner
                 /\ iter_todo' = subscribe_request_list
                 /\ iter_used' = Cardinality(subscribe_request_list)
                 /\ cycle' = [NoCycle EXCEPT !.state = "running",
                                             !.reg = subscribe_request_list]
    ELSE /\ md_pc' = "idle"
         /\ md_login_out' = [NoLoginOut EXCEPT !.nLog = 1, !.failed = TRUE]
         /\ UNCHANGED <<md_connect_status, md_login_status, md_runner, iter_todo,
                        iter_used, cycle>>

\* XtpMdApi.connect, called by the host while no login or resubscription is
\* in progress: what it does to the market-data session
MdConnectCall(params, n) ==
    /\ md_pc = "idle"
    /\ md_params' = params
    /\ IF ~md_connect_status
       THEN MdLoginServer(n, "host")
       ELSE UNCHANGED <<md_connect_status, md_login_status, md_pc, md_runner,
                        iter_todo, iter_used, cycle, md_login_out>>
    /\ UNCHANGED <<subscribe_request_list, subscribe_all, re_connect_times, sys_config,
                   mdOut, subOut>>

\* XtpMdApi.connect
MdConnect(params, n) == MdConnectCall(params, n) /\ UNCHANGED outsideMd

\* RegistryAfterSubscribe with the registry assigned instead of added to
RegistryAfterSubscribe_Replace(reg, req, login) == IF login THEN {req} ELSE reg

\* RegistryAfterSubscribe with the entry added whatever the login state
RegistryAfterSubscribe_Remembers(reg, req, login) == reg \cup {req}

\* subscribe: "if self.login_status: ... self.subscribe_request_list.add(ele)"
RegistryAfterSubscribe(reg, req, login) == IF login THEN reg \cup {req} ELSE reg

\* The vendor calls of a subscribe or subscribe_all_tickets call
NoSubOut == [op |-> "none", nCall |-> 0]

\* XtpMdApi.subscribe
subscribe(req) ==
    /\ subscribe_request_list' =
            RegistryAfterSubscribe(subscribe_request_list, req, md_login_status)
    /\ subOut' = [op |-> "subscribe", nCall |-> IF md_login_status THEN 1 ELSE 0]
    /\ UNCHANGED <<md_connect_status, md_login_status, md_params, subscribe_all,
                   re_connect_times, sys_config, md_pc, md_runner, iter_todo, iter_used,
                   cycle, mdOut,
                   md_login_out>>
    /\ UNCHANGED outsideMd

\* XtpMdApi.subscribe_all_tickets
subscribe_all_tickets ==
    /\ subscribe_all' = (subscribe_all \/ md_login_status)
    /\ subOut' = [op |-> "subscribe_all_tickets", nCall |-> IF md_login_status THEN 1 ELSE 0]
    /\ UNCHANGED <<md_connect_status, md_login_status, md_params, subscribe_request_list,
                   re_connect_times, sys_config, md_pc, md_runner, iter_todo, iter_used,
                   cycle, mdOut,
                   md_login_out>>
    /\ UNCHANGED outsideMd

\* The row re_auto_login_xtp is changed by an operator
SetConfig(v) ==
    /\ sys_config # v
    /\ sys_config' = v
    /\ UNCHANGED <<md_connect_status, md_login_status, md_params, subscribe_request_list,
                   subscribe_all, re_connect_times, md_pc, md_runner, iter_todo,
                   iter_used, cycle, mdOut,
                   md_login_out, subOut>>
    /\ UNCHANGED outsideMd

\* XtpMdApi.onDisconnected up to sleep(3): the flags drop, the policy is
\* consulted; the callback thread then sleeps
MdOnDisconnected ==
    /\ md_pc = "idle"
    /\ md_connect_status
    /\ re_connect_times < MaxReconnect
    /\ md_connect_status' = FALSE
    /\ md_login_status' = FALSE
    /\ IF ReconnectBlocked(subscribe_request_list, sys_config)
       THEN /\ mdOut' = [NoMdOut EXCEPT !.op = "blocked", !.reg = subscribe_request_list,
                                        !.switch = sys_config,
                                        !.params0 = md_params,
                                        !.counter0 = re_connect_times]
            /\ UNCHANGED <<md_pc, md_runner>>
       ELSE /\ mdOut' = [NoMdOut EXCEPT !.op = "backoff", !.reg = subscribe_request_list,
                                        !.switch = sys_config,
                                        !.params0 = md_params,
                                        !.counter0 = re_connect_times]
            /\ md_pc' = "backoff"
            /\ md_runner' = "cb"
    /\ UNCHANGED <<md_params, subscribe_request_list, subscribe_all, re_connect_times,
                   sys_config, iter_todo, iter_used, cycle, md_login_out, subOut>>
    /\ UNCHANGED outsideMd

\* XtpMdApi.onDisconnected from the end of sleep(3): the counter rises and
\* login_server runs
MdBackoffDone(n) ==
    /\ md_pc = "backoff"
    /\ re_connect_times' = re_connect_times + 1
    /\ mdOut' = [mdOut EXCEPT !.op = "done", !.slept = SleepSeconds, !.nLogin = @ + 1,
                              !.loginParams = md_params, !.loginOk = (n = 0)]
    /\ MdLoginServer(n, "cb")
    /\ UNCHANGED <<md_params, subscribe_request_list, subscribe_all, sys_config, subOut>>
    /\ UNCHANGED outsideMd

\* re_subscribe, one turn of the first loop ("for req in sub_list_clone",
\* where sub_list_clone is self.subscribe_request_list itself): the set's
\* iterator raises when the set has grown since the loop started, and the
\* except clause ends re_subscribe; otherwise the next entry is unsubscribed,
\* or the loop ends and the second loop starts
MdUnsubStep ==
    /\ md_pc = "unsub"
    /\ IF Cardinality(subscribe_request_list) # iter_used
       THEN /\ md_pc' = "idle"
            /\ cycle' = [cycle EXCEPT !.state = "abandoned"]
            /\ UNCHANGED <<iter_todo, iter_used>>
       ELSE IF iter_todo = {}
       THEN /\ md_pc' = "sub"
            /\ iter_todo' = subscribe_request_list
            /\ iter_used' = Cardinality(subscribe_request_list)
            /\ UNCHANGED cycle
       ELSE \E req \in iter_todo :
            /\ iter_todo' = iter_todo \ {req}
            /\ cycle' = [cycle EXCEPT !.unsub = @ \cup {req}]
            /\ UNCHANGED <<md_pc, iter_used>>
    /\ UNCHANGED <<md_connect_status, md_login_status, md_params, subscribe_request_list,
                   subscribe_all, re_connect_times, sys_config, md_runner, mdOut,
                   md_login_out, subOut>>
    /\ UNCHANGED outsideMd

\* re_subscribe, one turn of the second loop
MdSubStep ==
    /\ md_pc = "sub"
    /\ IF Cardinality(subscribe_request_list) # iter_used
       THEN /\ md_pc' = "idle"
            /\ cycle' = [cycle EXCEPT !.state = "abandoned"]
            /\ UNCHANGED <<iter_todo, iter_used>>
       ELSE IF iter_todo = {}
       THEN /\ md_pc' = "idle"
            /\ cycle' = [cycle EXCEPT !.state = "done"]
            /\ UNCHANGED <<iter_todo, iter_used>>
       ELSE \E req \in iter_todo :
            /\ iter_todo' = iter_todo \ {req}
            /\ cycle' = [cycle EXCEPT !.sub = @ \cup {req},
                                      !.early = @ \/ ~(cycle.reg \subseteq cycle.unsub)]
            /\ UNCHANGED <<md_pc, iter_used>>
    /\ UNCHANGED <<md_connect_status, md_login_status, md_params, subscribe_request_list,
                   subscribe_all, re_connect_times, sys_config, md_runner, mdOut,
                   md_login_out, subOut>>
    /\ UNCHANGED outsideMd

InitMd ==
    /\ md_connect_status = FALSE
    /\ md_login_status = FALSE
    /\ md_params = NoParams
    /\ subscribe_request_list = {}
    /\ subscribe_all = FALSE
    /\ re_connect_times = 0
    /\ sys_config = "unset"
    /\ md_pc = "idle"
    /\ md_runner = "none"
    /\ md_login_out = NoLoginOut
    /\ subOut = NoSubOut
    /\ iter_todo = {}
    /\ iter_used = 0
    /\ cycle = NoCycle
    /\ mdOut = NoMdOut

NextMd ==
    \/ \E p \in ParamSets : \E n \in LoginResults : MdConnect(p, n)
    \/ \E req \in SubKeys : subscribe(req)
    \/ \E v \in ConfigValues : SetConfig(v)
    \/ MdOnDisconnected
    \/ \E n \in LoginResults : MdBackoffDone(n)
    \/ MdUnsubStep
    \/ MdSubStep

\* The market-data session with both kinds of subscription, the policy row
\* left unset
NextSubscribe ==
    \/ \E n \in LoginResults : MdConnect(CHOOSE p \in ParamSets : p.endpoint = 1, n)
    \/ \E req \in SubKeys : subscribe(req)
    \/ subscribe_all_tickets
    \/ MdOnDisconnected
    \/ \E n \in LoginResults : MdBackoffDone(n)
    \/ MdUnsubStep
    \/ MdSubStep

-----------------------------------------------------------------------------
(* XtpMdApi.onDepthMarketData: the tick filter *)

\* The ticks the feed delivers: 000001 of either exchange, 600000 of SSE
Tickers == {[ticker |-> "000001", exchange_id |-> 1],
            [ticker |-> "000001", exchange_id |-> 2],
            [ticker |-> "600000", exchange_id |-> 1]}

\* vt_symbol = f"{symbol}.{exchange.value}", kept as the pair
VtSymbol(ticker, exchange_id) == <<ticker, EXCHANGE_XTP2VT(exchange_id)>>

VtSymbols == {VtSymbol(t.ticker, t.exchange_id) : t \in Tickers}

\* DateUtil.datetime_a_le_b(a, b) of vnpy.trader.utility: a <= b
datetime_a_le_b(a, b) == a <= b

\* IsEarlyTick with the two times passed the other way round
IsEarlyTick_Swapped(dt, last) == last # NoTime /\ datetime_a_le_b(last, dt)

\* "if last_tick_time is not None: if DateUtil.datetime_a_le_b(dt, last_tick_time)"
IsEarlyTick(dt, last) == last # NoTime /\ datetime_a_le_b(dt, last)

\* __is_sub_symbol: some entry of the registry has this symbol
IsSubSymbol(reg, symbol) == \E sub_req \in reg : sub_req[1] = symbol

\* "if not self.subscribe_all and not self.__is_sub_symbol(data["ticker"])"
NotOurTick(all, reg, symbol) == ~all /\ ~IsSubSymbol(reg, symbol)

\* XtpMdApi.query_local_latest_tick_time: the table's entry, NoTime for None
query_local_latest_tick_time(table, vt_symbol) == table[vt_symbol]

\* atEmit: what query_local_latest_tick_time gave for the tick's key when
\* gateway.on_tick was called, NoTime when it was not called
NoTick == [vt_symbol |-> <<"", "">>, dt |-> NoTime, emitted |-> FALSE, last |-> NoTime,
           prevEmit |-> NoTime, all |-> FALSE, atEmit |-> NoTime]

onDepthMarketData(data, dt) ==
    LET vt_symbol == VtSymbol(data.ticker, data.exchange_id)
        last == last_tick_time[vt_symbol]
        drop == \/ IsEarlyTick(dt, last)
                \/ NotOurTick(subscribe_all, subscribe_request_list, data.ticker)
    IN  /\ md_login_status
        /\ tickOut' = [vt_symbol |-> vt_symbol, dt |-> dt, emitted |-> ~drop,
                       last |-> last, prevEmit |-> emit_time[vt_symbol],
                       all |-> subscribe_all,
                       \* on_tick is called with the table as the handler found it
                       atEmit |-> IF drop THEN NoTime
                                  ELSE query_local_latest_tick_time(last_tick_time,
                                                                    vt_symbol)]
        /\ IF drop
           THEN UNCHANGED <<last_tick_time, emit_time>>
           ELSE \* gateway.on_tick(tick), then self.last_tick_time[vt_symbol] = dt
                /\ emit_time' = [emit_time EXCEPT ![vt_symbol] = dt]
                /\ last_tick_time' = [last_tick_time EXCEPT ![vt_symbol] = dt]
        /\ UNCHANGED outsideTick

InitTick ==
    /\ last_tick_time = [k \in VtSymbols |-> NoTime]
    /\ emit_time = [k \in VtSymbols |-> NoTime]
    /\ tickOut = NoTick

NextTick ==
    \/ \E p \in ParamSets : \E n \in LoginResults : MdConnect(p, n)
    \/ \E req \in SubKeys : subscribe(req)
    \/ subscribe_all_tickets
    \/ \E data \in Tickers : \E dt \in 1..MaxTime : onDepthMarketData(data, dt)

-----------------------------------------------------------------------------
(* XtpTdApi: the session and the host's calls *)

\* data["account_type"] of onQueryAsset: 0 a cash account, 1 a margin account
AccountTypes == {0, 1}

NextTdHost ==
    \/ \E p \in ParamSets : \E n \in LoginResults : TdConnect(p, n)
    \/ \E n \in LoginResults : TdOnDisconnected(n)
    \/ \E v \in ConfigValues : SetConfig(v)
    \/ \E t \in AccountTypes : onQueryAsset(t)
    \/ \E o \in OrderIds : \E req \in HostRequests(o) : send_order(req, o)
    \/ \E o \in OrderIds : cancel_order(o)
    \/ \E o \in OrderIds : \E e \in {0, 1} : onCancelOrderError(o, e)

-----------------------------------------------------------------------------
(* XtpTdApi: send_order on the host's thread, order updates on the SDK's *)

\* The insert_time values of the order updates of order 1
LaterInsertTimes == {1, 2}

NextTdSend ==
    \/ \E n \in LoginResults : TdConnect(CHOOSE p \in ParamSets : p.endpoint = 1, n)
    \/ \E o \in OrderIds : \E req \in Requests(o) : SendOrderInsert(req, o)
    \/ SendOrderStore
    \/ \E o \in OrderIds :
         \E data \in OrderEventsAt(o, IF o = 1 THEN LaterInsertTimes ELSE InsertTimes) :
            onOrderEvent(data, 0)

-----------------------------------------------------------------------------
(* XtpTdApi: onOrderEvent and onTradeEvent on two threads *)

\* The two callbacks take no lock; each is followed here statement by
\* statement on a record that is in the cache.  A run keeps, besides its
\* input, the record as it was when the earlier of two overlapping runs
\* started (base); a run that overlapped the other callback's stays at "done"
\* until the next run starts.

InProgress(run) == run.pc \notin {"idle", "done"}

\* What a run that starts now finds of the other callback: the other run
\* when it is in progress, nothing otherwise
OtherAtStart(other) == IF InProgress(other) THEN other ELSE NoRun

\* A run at its return: kept as "done" when the other callback ran meanwhile
AtReturn(run, other) == IF other = NoRun THEN NoRun ELSE [run EXCEPT !.pc = "done"]

\* onOrderEvent, else branch, "order.traded = data['qty_traded']"
OrderEventSetTraded(data) ==
    LET orderid == data.order_xtp_id
    IN  /\ td_login_status
        /\ ~InProgress(ev_run)
        /\ orders[orderid] # NoOrder
        /\ BrokerConsistent(data.order_status, data.qty_traded, data.quantity)
        /\ BrokerMayReport(orderid, data.qty_traded)
        /\ fill_marks' = [fill_marks EXCEPT ![orderid] = @ \cup {data.qty_traded}]
        /\ orders' = [orders EXCEPT ![orderid].traded = data.qty_traded]
        /\ ev_run' = [pc |-> "status", orderid |-> orderid, data |-> data,
                      base |-> IF InProgress(tr_run) THEN tr_run.base ELSE orders[orderid]]
        /\ tr_run' = OtherAtStart(tr_run)
        /\ UNCHANGED <<td_connect_status, td_login_status, margin_trading, filled,
                       td_params, td_used, tdOut, sending>>
        /\ UNCHANGED <<debtVars, mdSessVars, tickVars, timerVars>>

\* onOrderEvent, "order.status = ...", the timestamp, gateway.on_order
OrderEventSetStatus ==
    LET orderid == ev_run.orderid
        data == ev_run.data
    IN  /\ ev_run.pc = "status"
        /\ orders' = [orders EXCEPT ![orderid] =
                        SetDatetime([@ EXCEPT !.status = STATUS_XTP2VT(data.order_status)],
                                    data)]
        /\ tdOut' = [TdOutcome("onOrderEvent", orderid) EXCEPT
                        !.nOrder = 1,
                        !.qty = data.qty_traded,
                        !.status = STATUS_XTP2VT(data.order_status),
                        !.insert_time = data.insert_time]
        /\ ev_run' = AtReturn(ev_run, tr_run)
        /\ UNCHANGED <<td_connect_status, td_login_status, margin_trading, filled,
                       fill_marks, td_params, td_used, sending, tr_run>>
        /\ UNCHANGED <<debtVars, mdSessVars, tickVars, timerVars>>

\* onTradeEvent, "order.traded += trade.volume": the attribute is read
TradeLoadTraded(orderid, volume) ==
    /\ td_login_status
    /\ ~InProgress(tr_run)
    /\ orders[orderid] # NoOrder
    /\ BrokerMayFill(orderid, volume)
    /\ filled' = [filled EXCEPT ![orderid] = @ + volume]
    /\ fill_marks' = [fill_marks EXCEPT ![orderid] = @ \cup {filled[orderid] + volume}]
    /\ tr_run' = [pc |-> "store", orderid |-> orderid, volume |-> volume,
                  loaded |-> orders[orderid].traded,
                  base |-> IF InProgress(ev_run) THEN ev_run.base ELSE orders[orderid]]
    /\ ev_run' = OtherAtStart(ev_run)
    /\ UNCHANGED <<orders, td_connect_status, td_login_status, margin_trading,
                   td_params, td_used, tdOut, sending>>
    /\ UNCHANGED <<debtVars, mdSessVars, tickVars, timerVars>>

\* onTradeEvent, "order.traded += trade.volume": the sum is stored
TradeStoreTraded ==
    /\ tr_run.pc = "store"
    /\ orders' = [orders EXCEPT ![tr_run.orderid].traded = tr_run.loaded + tr_run.volume]
    /\ tr_run' = [tr_run EXCEPT !.pc = "status"]
    /\ UNCHANGED <<td_connect_status, td_login_status, margin_trading, filled, fill_marks,
                   td_params, td_used, tdOut, sending, ev_run>>
    /\ UNCHANGED <<debtVars, mdSessVars, tickVars, timerVars>>

\* onTradeEvent, "if order.traded < order.volume: ..." to the end
TradeSetStatus ==
    LET orderid == tr_run.orderid
        order == [orders[orderid] EXCEPT
                    !.status = IF orders[orderid].traded < orders[orderid].volume
                               THEN "PARTTRADED" ELSE "ALLTRADED"]
    IN  /\ tr_run.pc = "status"
        /\ orders' = [orders EXCEPT ![orderid] = order]
        /\ tdOut' = [TdOutcome("onTradeEvent", orderid) EXCEPT
                        !.nOrder = 1,
                        !.nTrade = 1,
                        !.nRefresh = query_account,
                        !.nCredit = query_credit_asset]
        /\ tr_run' = AtReturn(tr_run, ev_run)
        /\ UNCHANGED <<td_connect_status, td_login_status, margin_trading, filled,
                       fill_marks, td_params, td_used, sending, ev_run>>
        /\ UNCHANGED <<debtVars, mdSessVars, tickVars, timerVars>>

\* The order whose callbacks are followed on two threads: the option order
RacedOrders == {2}

NextTdCallbacks ==
    \/ \E n \in LoginResults : TdConnect(CHOOSE p \in ParamSets : p.endpoint = 1, n)
    \/ \E o \in RacedOrders : send_order(ReqOf(o), o)
    \/ \E o \in RacedOrders : \E data \in OrderEvents(o) : OrderEventSetTraded(data)
    \/ OrderEventSetStatus
    \/ \E o \in RacedOrders : \E v \in 1..BrokerOrder(o).quantity : TradeLoadTraded(o, v)
    \/ TradeStoreTraded
    \/ TradeSetStatus

-----------------------------------------------------------------------------
(* XtpGateway: connect and the query timer *)

\* datetime.time(hour, minute), in seconds since midnight
time(hour, minute) == hour * 3600 + minute * 60

AM_START == time(9, 30)
AM_END == time(11, 30)

PM_START == time(13, 0)
PM_END == time(15, 0)

\* The readings of datetime.now().time() at a timer event: the four edges of
\* the windows, and the second outside each edge
ClockTimes == {AM_START - 1, AM_START, AM_END, AM_END + 1,
               PM_START - 1, PM_START, PM_END, PM_END + 1}

\* is_curr_trade_time with the morning window only
is_curr_trade_time_MorningOnly(current_time) ==
    AM_START <= current_time /\ current_time <= AM_END

is_curr_trade_time(current_time) ==
    \/ AM_START <= current_time /\ current_time <= AM_END
    \/ PM_START <= current_time /\ current_time <= PM_END

\* ran: the methods called, in order; requests: the vendor queries they sent
NoTimerOut == [op |-> "none", now |-> 0, ran |-> <<>>, requests |-> <<>>]

\* XtpTdApi.query_account and query_credit_asset: the vendor queries sent
\* when the trading session is in the state connected
QueryAccountRequests(connected) == IF connected THEN <<"queryAsset">> ELSE <<>>
QueryCreditAssetRequests(connected) == IF connected THEN <<"queryCreditFundInfo">> ELSE <<>>

\* XtpTdApi.query_position: the vendor queries sent
QueryPositionRequests ==
    IF ~td_connect_status THEN <<>>
    ELSE IF margin_trading THEN <<"queryPosition", "queryCreditDebtInfo">>
    ELSE <<"queryPosition">>

\* init_query: "self.query_functions = [self.query_position]"
InitialQueue == <<"query_position">>

\* Requeue without the append: the method that ran is dropped
Requeue_Drop(queue) == Tail(queue)

\* process_timer_event: "func = pop(0); func(); append(func)", the list after it
Requeue(queue) == Append(Tail(queue), Head(queue))

\* XtpGateway.init_query, run after the trading session's connect
init_query ==
    /\ count' = 0
    /\ query_functions' = InitialQueue
    /\ timer_registered' = TRUE
    /\ timerOut' = [NoTimerOut EXCEPT
                        !.op = "init_query",
                        !.ran = <<"query_account", "query_credit_asset">>,
                        !.requests = QueryAccountRequests(td_connect_status')
                                        \o QueryCreditAssetRequests(td_connect_status')]

\* XtpGateway.connect.  quote / trader: the setting names a quote address /
\* a trading address; init_query runs with the trading session's connect.
connect(params, quote, trader, nmd, ntd) ==
    /\ IF quote
       THEN MdConnectCall(params, nmd)
       ELSE UNCHANGED mdSessVars
    /\ IF trader
       THEN TdConnectCall(params, ntd) /\ init_query
       ELSE UNCHANGED <<tdVars, timerVars>>
    /\ UNCHANGED <<debtVars, tickVars, threadVars>>

\* XtpGateway.process_timer_event at the clock reading now.  The only method
\* in the list is query_position; with a margin account it sends a debt
\* query, which the broker adds to the one outstanding, if any.
process_timer_event(now) ==
    /\ timer_registered
    /\ IF is_curr_trade_time(now)
       THEN /\ timerOut' = [NoTimerOut EXCEPT !.op = "process_timer_event", !.now = now]
            /\ UNCHANGED <<count, query_functions, debt_open, debt_sum>>
       ELSE IF count + 1 < 2
       THEN /\ count' = count + 1
            /\ timerOut' = [NoTimerOut EXCEPT !.op = "process_timer_event", !.now = now]
            /\ UNCHANGED <<query_functions, debt_open, debt_sum>>
       ELSE LET func == Head(query_functions)
                asks == td_connect_status /\ margin_trading
            IN  /\ count' = 0
                /\ query_functions' = Requeue(query_functions)
                /\ timerOut' = [NoTimerOut EXCEPT !.op = "process_timer_event",
                                                  !.now = now,
                                                  !.ran = <<func>>,
                                                  !.requests = QueryPositionRequests]
                /\ debt_open' = (debt_open \/ asks)
                /\ debt_sum' = IF asks /\ ~debt_open THEN NoDebt ELSE debt_sum
    /\ UNCHANGED <<timer_registered, short_positions, debt_pages, posOut>>
    /\ UNCHANGED <<tdVars, mdSessVars, tickVars, threadVars>>

InitTimer ==
    /\ count = 0
    /\ query_functions = <<>>
    /\ timer_registered = FALSE
    /\ timerOut = NoTimerOut

NextTimer ==
    \/ \E p \in ParamSets : \E quote, trader \in BOOLEAN : \E nmd, ntd \in LoginResults :
            connect(p, quote, trader, nmd, ntd)
    \/ \E now \in ClockTimes : process_timer_event(now)
    \/ \E n \in LoginResults : TdOnDisconnected(n)
    \/ \E t \in AccountTypes : onQueryAsset(t)

\* Both sessions of one gateway: the host connects, asks for every ticker and
\* cancels, either session drops and logs in again, the timer fires and the
\* asset reply arrives
NextSessions ==
    \/ \E quote, trader \in BOOLEAN : \E nmd, ntd \in LoginResults :
            connect(CHOOSE p \in ParamSets : p.endpoint = 1, quote, trader, nmd, ntd)
    \/ subscribe_all_tickets
    \/ MdOnDisconnected
    \/ \E n \in LoginResults : MdBackoffDone(n)
    \/ \E n \in LoginResults : TdOnDisconnected(n)
    \/ \E o \in OrderIds : cancel_order(o)
    \/ \E now \in ClockTimes : process_timer_event(now)
    \/ \E t \in AccountTypes : onQueryAsset(t)

-----------------------------------------------------------------------------
(* Specifications *)

Init == InitTd /\ InitDebt /\ InitMd /\ InitTick /\ InitTimer

\* The trading session and the order cache
SpecTd == Init /\ [][NextTd]_vars

\* The market-data session
SpecMd == Init /\ [][NextMd]_vars

\* The tick filter
SpecTick == Init /\ [][NextTick]_vars

\* The debt query
SpecDebt == Init /\ [][NextDebt]_vars

\* The trading session and the host's calls on it
SpecTdHost == Init /\ [][NextTdHost]_vars

\* The gateway's connect and its query timer
SpecTimer == Init /\ [][NextTimer]_vars

\* The market-data session with subscribe and subscribe_all_tickets
SpecSubscribe == Init /\ [][NextSubscribe]_vars

\* The two sessions side by side
SpecSessions == Init /\ [][NextSessions]_vars

\* send_order in two steps, with the order updates that may come between them
SpecTdSend == Init /\ [][NextTdSend]_vars

\* The two order callbacks, statement by statement, on two threads
SpecTdCallbacks == Init /\ [][NextTdCallbacks]_vars

-----------------------------------------------------------------------------
(* The order cache: claims *)

\* C1: for every interleaving of order-update and trade-fill events on an
\* order id, the order in the cache has 0 <= traded <= volume.
C1_TradedWithinVolume ==
    \A o \in OrderIds :
        orders[o] # NoOrder => 0 <= orders[o].traded /\ orders[o].traded <= orders[o].volume

\* C2: once an order's status is AllTraded, Cancelled or Rejected, no later
\* order-update or trade-fill event changes it.
C2_TerminalStatusIsFinal ==
    [][\A o \in OrderIds :
        (orders[o] # NoOrder /\ orders[o].status \in {"ALLTRADED", "CANCELLED", "REJECTED"})
            => orders'[o].status = orders[o].status]_vars

\* C3: an order update has just reported traded = q < volume with status
\* PartTraded, and the trade-fill event of volume q for that order arrives:
\* the order keeps traded = q and status PartTraded, and one account refresh
\* is issued.
C3_ReportedFillNotCountedTwice ==
    [][\A o \in OrderIds : \A q \in 1..MaxVolume :
        ( /\ tdOut.op = "onOrderEvent"
          /\ tdOut.oid = o
          /\ orders[o] # NoOrder
          /\ orders[o].traded = q
          /\ q < orders[o].volume
          /\ orders[o].status = "PARTTRADED"
          /\ onTradeEvent(o, q) )
        => ( /\ orders'[o].traded = q
             /\ orders'[o].status = "PARTTRADED"
             /\ tdOut'.nRefresh = 1 )]_vars

\* C4: a trade-fill event for an order id that is not in the cache is logged
\* and dropped: the cache is unchanged, no order and no trade is published,
\* no refresh is issued and the handler does not raise.
C4_UnknownTradeDropped ==
    [][\A o \in OrderIds : \A v \in 1..MaxVolume :
        (orders[o] = NoOrder /\ onTradeEvent(o, v))
        => ( /\ orders' = orders
             /\ tdOut'.nLog = 1
             /\ tdOut'.nOrder = 0
             /\ tdOut'.nTrade = 0
             /\ tdOut'.nRefresh = 0
             /\ ~tdOut'.raised )]_vars

\* C18: an order update sets traded and status to the event's values, and
\* an order update applied to a record that the same update has just been
\* applied to leaves the cache as it is.
C18_OrderUpdateReplayIsIdempotent ==
    [][tdOut'.op = "onOrderEvent"
        => ( /\ orders'[tdOut'.oid].traded = tdOut'.qty
             /\ orders'[tdOut'.oid].status = tdOut'.status
             /\ tdOut'.replay => orders' = orders )]_vars

\* An order update reporting a partial fill has been applied a second time.
C18_Witness ==
    /\ tdOut.op = "onOrderEvent"
    /\ tdOut.replay
    /\ orders[tdOut.oid].traded > 0
    /\ orders[tdOut.oid].status = "PARTTRADED"

-----------------------------------------------------------------------------
(* The tick filter: claims *)

\* C5: per contract key the times of the emitted ticks never go back, and a
\* tick no later than the last accepted one for its key is dropped: it is
\* not emitted and the last-seen-time table stays as it is.
C5_TickTimesMonotone ==
    [][\A data \in Tickers : \A dt \in 1..MaxTime :
        onDepthMarketData(data, dt) =>
            LET k == VtSymbol(data.ticker, data.exchange_id)
            IN  /\ tickOut'.emitted => dt >= emit_time[k]
                /\ (emit_time[k] # NoTime /\ dt <= emit_time[k])
                      => ( /\ ~tickOut'.emitted
                           /\ emit_time' = emit_time
                           /\ last_tick_time' = last_tick_time )]_vars

\* A tick with the time of the last accepted tick of its subscribed key has
\* arrived and was dropped.
C5_Witness ==
    /\ tickOut.last # NoTime
    /\ tickOut.dt = tickOut.last
    /\ ~tickOut.emitted
    /\ tickOut.vt_symbol \in subscribe_request_list
    /\ last_tick_time[tickOut.vt_symbol] = tickOut.last

\* C6: unless all-market mode is on, every emitted tick has its (symbol,
\* exchange) pair in the subscription registry.
C6_EmittedTickIsSubscribed ==
    (tickOut.emitted /\ ~tickOut.all) => tickOut.vt_symbol \in subscribe_request_list

\* C26: when a tick is emitted, the last-seen-time table already holds the
\* tick's own time for its contract key at the moment the host is handed the
\* tick.
C26_TableSetBeforeEmit == tickOut.emitted => tickOut.atEmit = tickOut.dt

\* C27: a tick of a contract key that is in the registry, with the time the
\* table holds for that key (the time of the last accepted tick), is emitted.
C27_EqualTimePasses ==
    [][\A data \in Tickers : \A dt \in 1..MaxTime :
        ( /\ onDepthMarketData(data, dt)
          /\ last_tick_time[VtSymbol(data.ticker, data.exchange_id)] = dt
          /\ VtSymbol(data.ticker, data.exchange_id) \in subscribe_request_list )
            => tickOut'.emitted]_vars

-----------------------------------------------------------------------------
(* The market-data session: claims *)

\* C7: no step removes an entry of the subscription registry, and when the
\* session logs in again after a disconnect the registry is the set it was
\* when the session dropped.
C7_RegistrySurvivesReconnect ==
    [][ /\ subscribe_request_list \subseteq subscribe_request_list'
        /\ (~md_login_status /\ md_login_status' /\ mdOut.op # "none")
              => subscribe_request_list' = mdOut.reg ]_vars

\* The session has logged in again after dropping with two entries.
C7_Witness ==
    /\ mdOut.op = "done"
    /\ mdOut.loginOk
    /\ md_login_status
    /\ Cardinality(mdOut.reg) >= 2
    /\ subscribe_request_list = mdOut.reg

\* C8: in a resubscription cycle no subscribe is issued before every entry
\* of the registry was unsubscribed, and when re_subscribe returns every
\* entry was unsubscribed and subscribed again.
C8_UnsubscribeAllThenSubscribeAll ==
    /\ ~cycle.early
    /\ cycle.state \in {"done", "abandoned"}
          => (cycle.unsub = cycle.reg /\ cycle.sub = cycle.reg)

C10_SwitchNStopsReconnect ==
    /\ mdOut.switch = "N" => (mdOut.nLogin = 0 /\ re_connect_times = mdOut.counter0)
    /\ mdOut.switch = "unset" => mdOut.op # "blocked"

\* C11: with the UDP protocol the resubscription that follows the reconnect
\* login of onDisconnected issues no unsubscribe and no subscribe call.
C11_UdpReconnectDoesNotResubscribe ==
    ( /\ md_params.protocol = "UDP"
      /\ md_runner = "cb"
      /\ md_pc \in {"unsub", "sub"} )
        => (cycle.unsub = {} /\ cycle.sub = {})

\* C12: a page of a debt query that is not the last publishes no position;
\* the last page publishes one SHORT position per symbol, its volume the sum
\* of the symbol's remain_qty over the pages of the query, and leaves the
\* accumulator empty.
C12_DebtPagesSummed ==
    posOut.op = "onQueryCreditDebtInfo" =>
        /\ ~posOut.last => posOut.published = {}
        /\ posOut.last =>
            /\ posOut.published =
                  {[symbol |-> s, exchange |-> MARKET_XTP2VT(DebtMarket(s)),
                    direction |-> "SHORT", volume |-> posOut.sums[s]] :
                        s \in {t \in DebtSymbols : posOut.sums[t] > 0}}
            /\ short_positions = NoPositions

\* C24: when a debt query starts, the short-position accumulator is empty:
\* nothing accumulated from the pages of an earlier query is left in it.
C24_AccumulatorEmptyAtQueryStart ==
    [][(~debt_open /\ debt_open') => short_positions' = NoPositions]_vars

\* C13: a connect call on a market-data session that is connected changes
\* nothing: the stored connection parameters, the two flags and the registry
\* are as before, and no login is made.
C13_ConnectWhenConnectedChangesNothing ==
    [][\A p \in ParamSets : \A n \in LoginResults :
        (md_connect_status /\ MdConnect(p, n))
            => ( /\ md_params' = md_params
                 /\ md_connect_status' = md_connect_status
                 /\ md_login_status' = md_login_status
                 /\ subscribe_request_list' = subscribe_request_list
                 /\ md_pc' = md_pc )]_vars

\* C14: a market-data login that fails, in connect or after the backoff of
\* onDisconnected, leaves the session disconnected, logs the failure, and
\* runs no contract query and no resubscription; and from a disconnected
\* session at rest no login is made but by a connect call of the host.
C14_FailedLoginStaysDisconnected ==
    [][ /\ \A n \in LoginResults \ {0} :
            ( \/ \E p \in ParamSets : ~md_connect_status /\ MdConnect(p, n)
              \/ MdBackoffDone(n) )
            => ( /\ ~md_connect_status'
                 /\ ~md_login_status'
                 /\ md_login_out'.nLog = 1
                 /\ md_login_out'.failed
                 /\ md_login_out'.nQueryContract = 0
                 /\ md_login_out'.nReSubscribe = 0
                 /\ cycle' = cycle
                 /\ md_pc' = "idle" )
        /\ (~md_connect_status /\ md_pc = "idle")
            => ( /\ re_connect_times' = re_connect_times
                 /\ mdOut' = mdOut
                 /\ md_login_status'
                       => \E p \in ParamSets : \E n \in LoginResults : MdConnect(p, n) )
      ]_vars

\* The login made after a disconnect has failed: the session is at rest,
\* disconnected, with the registry still holding entries.
C14_Witness ==
    /\ mdOut.op = "done"
    /\ ~mdOut.loginOk
    /\ md_login_out.failed
    /\ ~md_connect_status
    /\ md_pc = "idle"
    /\ subscribe_request_list # {}

\* C28: whatever the host's subscribe calls do meanwhile, a resubscription
\* that has ended has issued a subscribe for every registry entry it issued
\* an unsubscribe for.
C28_UnsubscribedIsResubscribed ==
    cycle.state \in {"done", "abandoned"} => cycle.unsub \subseteq cycle.sub

\* C30: a subscribe or subscribe_all_tickets call made while the session is
\* not logged in makes no vendor call and leaves the registry and the
\* all-market flag as they are; a resubscription issues calls for entries of
\* the registry only, so the request is not replayed after a later login.
C30_SubscribeWhileLoggedOutIsDropped ==
    /\ [][( /\ ~md_login_status
            /\ \/ \E req \in SubKeys : subscribe(req)
               \/ subscribe_all_tickets )
            => ( /\ subOut'.nCall = 0
                 /\ subscribe_request_list' = subscribe_request_list
                 /\ subscribe_all' = subscribe_all )]_vars
    /\ []((cycle.unsub \cup cycle.sub) \subseteq subscribe_request_list)

\* The last subscribe call was made while the session was not logged in; the
\* session has since logged in again after a disconnect and finished a
\* resubscription
C30_Witness ==
    /\ subOut.op = "subscribe"
    /\ subOut.nCall = 0
    /\ md_login_status
    /\ mdOut.op = "done"
    /\ mdOut.loginOk
    /\ cycle.state = "done"
    /\ cycle.sub = subscribe_request_list

\* C20: while the market-data session waits out its reconnect backoff, the
\* thread that delivers the SDK's callbacks is not the one that waits: it is
\* free to deliver further callbacks.
C20_BackoffLeavesCallbackThreadFree == md_pc = "backoff" => md_runner # "cb"

-----------------------------------------------------------------------------
(* The trading session: claims *)

\* C15: whatever the value of re_auto_login_xtp, onDisconnected of the
\* trading session drops both flags and makes one login with the parameters
\* of the session's last login: the session is disconnected when that login
\* fails and logged in when it succeeds.
C15_TdAlwaysReconnects ==
    [][\A n \in LoginResults :
        TdOnDisconnected(n)
            => ( /\ tdOut'.nLogin = 1
                 /\ tdOut'.loginParams = td_used
                 /\ n = 0 => (~td_connect_status' /\ ~td_login_status')
                 /\ n # 0 => (td_connect_status' /\ td_login_status') )]_vars

\* C16: send_order for an exchange other than SSE and SZSE, for an order type
\* the instrument class does not take, or with offset NONE on a margin
\* account returns "" and calls no insertOrder, leaves the cache as it is
\* and publishes no order.
C16_RejectedOrderIsLocal ==
    [][\A o \in OrderIds : \A req \in Requests(o) :
        LET option == SymbolLen(req.symbol) = 8
            unsupported ==
                \/ req.exchange \notin {"SSE", "SZSE"}
                \/ option /\ req.type \notin {"LIMIT", "MARKET", "FOK"}
                \/ ~option /\ req.type \notin {"LIMIT", "MARKET"}
                \/ margin_trading /\ req.offset = "NONE"
        IN  (unsupported /\ send_order(req, o))
                => ( /\ tdOut'.ret = 0
                     /\ tdOut'.nInsert = 0
                     /\ tdOut'.nOrder = 0
                     /\ orders' = orders )]_vars

\* On a margin account an order has been refused while another order is in
\* the cache.
C16_Witness ==
    /\ margin_trading
    /\ tdOut.op = "send_order"
    /\ tdOut.ret = 0
    /\ tdOut.nInsert = 0
    /\ \E o \in OrderIds : orders[o] # NoOrder

\* C17: cancel_order and onCancelOrderError leave the order cache as it is.
C17_CancelLeavesCacheAlone ==
    [][\A o \in OrderIds :
        (cancel_order(o) \/ \E e \in {0, 1} : onCancelOrderError(o, e))
            => orders' = orders]_vars

\* A cancel error has been reported for an order that is in the cache.
C17_Witness ==
    /\ tdOut.op = "onCancelOrderError"
    /\ tdOut.nLog = 1
    /\ orders[tdOut.oid] # NoOrder

-----------------------------------------------------------------------------
(* The order cache and its threads: claims *)

\* C21: when an order update and a trade fill of one order id have run
\* overlapping in time, the record's traded volume and status are those that
\* the two handlers give when run one after the other, in one of the two
\* orders, on the record as it was before either started.
C21_CallbacksSerializedPerOrder ==
    ( /\ ev_run.pc = "done"
      /\ tr_run.pc = "done"
      /\ ev_run.orderid = tr_run.orderid )
        => LET base == ev_run.base
               order == orders[ev_run.orderid]
               update_fill == TradeMerge(OrderUpdateMerge(base, ev_run.data), tr_run.volume)
               fill_update == OrderUpdateMerge(TradeMerge(base, tr_run.volume), ev_run.data)
           IN  \/ order.traded = update_fill.traded /\ order.status = update_fill.status
               \/ order.traded = fill_update.traded /\ order.status = fill_update.status

\* C22: an order update for an order id that is in the cache leaves the
\* record's symbol, exchange, direction, offset, type, price and volume as
\* they were, leaves its timestamp as it was when one was set, and changes no
\* other order's record.
C22_OrderUpdateFrame ==
    [][tdOut'.op = "onOrderEvent" /\ orders[tdOut'.oid] # NoOrder
        => LET old == orders[tdOut'.oid]
               new == orders'[tdOut'.oid]
           IN  /\ new.symbol = old.symbol
               /\ new.exchange = old.exchange
               /\ new.direction = old.direction
               /\ new.offset = old.offset
               /\ new.type = old.type
               /\ new.price = old.price
               /\ new.volume = old.volume
               /\ old.datetime # NoTime => new.datetime = old.datetime
               /\ \A p \in OrderIds \ {tdOut'.oid} : orders'[p] = orders[p]]_vars

\* An update carrying insert_time 2 was applied to a record stamped 1 by an
\* earlier update, and the record now counts a fill
C22_Witness ==
    /\ tdOut.op = "onOrderEvent"
    /\ tdOut.insert_time = 2
    /\ orders[tdOut.oid].datetime = 1
    /\ orders[tdOut.oid].traded > 0

\* C29: when send_order stores its record under the id insertOrder returned
\* and an order update has already put a record under that id, the record's
\* traded volume and status stay those of the order update.
C29_SendOrderKeepsReportedRecord ==
    [][tdOut'.op = "send_order" /\ tdOut'.ret # 0 /\ orders[tdOut'.ret] # NoOrder
        => /\ orders'[tdOut'.ret].traded = orders[tdOut'.ret].traded
           /\ orders'[tdOut'.ret].status = orders[tdOut'.ret].status]_vars

-----------------------------------------------------------------------------
(* The trading session's login and the queries: claims *)

\* A step in which a login of the trading session succeeds: through
\* onDisconnected, or through the gateway's connect while not connected
TdLoginSucceeds ==
    \/ \E n \in LoginResults \ {0} : TdOnDisconnected(n)
    \/ /\ ~td_connect_status
       /\ \E p \in ParamSets : \E quote \in BOOLEAN : \E nmd \in LoginResults :
            \E n \in LoginResults \ {0} : connect(p, quote, TRUE, nmd, n)

\* C23: every step in which a login of the trading session succeeds, the
\* login after a disconnect included, loads the contract directory and sends
\* an account query.
C23_LoginSchedulesQueries ==
    [][TdLoginSucceeds
        => /\ tdOut'.nBootstrap = 1
           /\ \/ tdOut'.nRefresh > 0
              \/ /\ tdOut'.op = "connect"
                 /\ timerOut'.op = "init_query"
                 /\ \E i \in DOMAIN timerOut'.requests :
                        timerOut'.requests[i] = "queryAsset"]_vars

-----------------------------------------------------------------------------
(* The query timer: claims *)

\* The two trading windows, each with its first and last instant
TradingWindows == {<<AM_START, AM_END>>, <<PM_START, PM_END>>}

\* C19: a timer event whose clock reading lies in either trading window leaves
\* the counter and the list as they are and runs no method and sends no query;
\* outside the windows the counter goes up by one and no method runs, except
\* on the event that brings the counter to 2, which runs exactly one method
\* and leaves the counter at 0.
C19_TimerGate ==
    [][\A now \in ClockTimes :
          process_timer_event(now) =>
            IF \E w \in TradingWindows : w[1] <= now /\ now <= w[2]
            THEN /\ count' = count
                 /\ query_functions' = query_functions
                 /\ timerOut'.ran = <<>>
                 /\ timerOut'.requests = <<>>
                 /\ debt_open' = debt_open
            ELSE IF count + 1 = 2
            THEN Len(timerOut'.ran) = 1 /\ count' = 0
            ELSE timerOut'.ran = <<>> /\ timerOut'.requests = <<>> /\ count' = count + 1]_vars

\* The rotations of a list
Rotations(queue) ==
    {[i \in 1..Len(queue) |-> queue[((i + k - 1) % Len(queue)) + 1]] : k \in 0..(Len(queue) - 1)}

C19_Witness ==
    /\ timerOut.op = "process_timer_event"
    /\ timerOut.now = PM_END + 1
    /\ timerOut.ran = <<"query_position">>
    /\ timerOut.requests = <<"queryPosition", "queryCreditDebtInfo">>
    /\ count = 0

-----------------------------------------------------------------------------
(* The session flags: claims *)

\* The steps that run XtpMdApi.login_server or XtpMdApi.onDisconnected
MdSessionStep ==
    \/ \E quote, trader \in BOOLEAN : \E nmd, ntd \in LoginResults :
            connect(CHOOSE p \in ParamSets : p.endpoint = 1, quote, trader, nmd, ntd)
    \/ MdOnDisconnected
    \/ \E n \in LoginResults : MdBackoffDone(n)

\* The steps that run XtpTdApi.login_server or XtpTdApi.onDisconnected
TdSessionStep ==
    \/ \E quote, trader \in BOOLEAN : \E nmd, ntd \in LoginResults :
            connect(CHOOSE p \in ParamSets : p.endpoint = 1, quote, trader, nmd, ntd)
    \/ \E n \in LoginResults : TdOnDisconnected(n)

\* A step that changes a flag of a session is a login or a disconnect of that
\* session and leaves its two flags equal
FlagsChangeInSessionStep ==
    /\ (<<md_connect_status, md_login_status>>' # <<md_connect_status, md_login_status>>)
         => (MdSessionStep /\ md_connect_status' = md_login_status')
    /\ (<<td_connect_status, td_login_status>>' # <<td_connect_status, td_login_status>>)
         => (TdSessionStep /\ td_connect_status' = td_login_status')

\* C31: in every state each session's connected flag equals its logged-in
\* flag; a step that changes a flag of a session is a login or a disconnect
\* of that session and changes both of its flags to the same value.
C31_FlagsMoveTogether ==
    /\ [](/\ md_connect_status = md_login_status
          /\ td_connect_status = td_login_status)
    /\ [][FlagsChangeInSessionStep]_vars

\* Both sessions dropped and are logged in again: the market-data session
\* after its backoff, the trading session inside onDisconnected
C31_Witness ==
    /\ mdOut.op = "done"
    /\ md_connect_status /\ md_login_status
    /\ tdOut.op = "onDisconnected"
    /\ td_connect_status /\ td_login_status

=============================================================================
